---- MODULE Spec2Model ----
(***************************************************************************)
(* Model of axiv: two in-memory reference stores (hotels, rooms) filled by *)
(* bulk imports, and the lazy row integrator that joins every input row    *)
(* against them and writes the enriched rows to the output file.           *)
(*                                                                         *)
(* Strings are TLA+ strings (\o is concatenation).  A value a Rust Option  *)
(* or Result holds is a tagged record.  A file is [exists |-> FALSE] or    *)
(* [exists |-> TRUE, lines |-> <<...>>]; a line carries its raw text and,  *)
(* when it parses, the entity it parses to.                                *)
(***************************************************************************)
EXTENDS Integers, Sequences, FiniteSets, TLC

VARIABLES
    pc,               \* position inside run (lib.rs) or the driver of the specification
    overflow_checks,  \* build profile: TRUE = overflow checks on (debug), FALSE = wrapping (release)
    hotels,           \* DataSource<String, Hotel>.items
    rooms,            \* DataSource<String, Room>.items
    input,            \* the input file as the csv reader sees it
    pos,              \* number of input rows DataIntegrator.input has consumed
    items,            \* the items DataIntegrator::next has yielded, in order
    output,           \* the output file
    result,           \* what run returned (or how it ended)
    calls,            \* number of import_from calls made so far
    imported_h,       \* every (key, entry) pair successfully imported into hotels, in order
    imported_r,       \* every (key, entry) pair successfully imported into rooms, in order
    imports_ok,       \* the stores whose import_from call has returned Ok, in call order
    custom_date,      \* a date on its way through custom_date: text, parsed value, written text
    last              \* the last import_from call: its file, the store before it, its result

vars == <<pc, overflow_checks, hotels, rooms, input, pos, items, output, result,
          calls, imported_h, imported_r, imports_ok, custom_date, last>>

(***************************************************************************)
(* Bounds of the model.                                                    *)
(***************************************************************************)
MaxLines == 2     \* longest reference file, in lines
MaxImports == 2   \* import_from calls in one behaviour of SpecStore
MaxRows == 2      \* longest input file, in rows

(***************************************************************************)
(* Entities (entities.rs).                                                 *)
(***************************************************************************)
PeopleAmountBits == 8
PeopleAmountMod == 2 ^ PeopleAmountBits

MkRoom(hotel_code, room_code, source, room_name) ==
    [hotel_code |-> hotel_code, source |-> source,
     room_name |-> room_name, room_code |-> room_code]

MkHotel(id, name, category) ==
    [id |-> id, city_code |-> "BER", name |-> name, category |-> category,
     country_code |-> "DE", city |-> "Berlin"]

generate_room_key(hotel_code, room_code, source) ==
    hotel_code \o "-" \o room_code \o "-" \o source

RoomKey(room) == generate_room_key(room.hotel_code, room.room_code, room.source)

(***************************************************************************)
(* Reference files.  A hotels line is one JSON object, a rooms line one    *)
(* pipe-delimited record; a line that does not deserialize is "bad".       *)
(***************************************************************************)
GoodLine(raw, entity) == [ok |-> TRUE, raw |-> raw, val |-> entity]
BadLine(raw) == [ok |-> FALSE, raw |-> raw]

MissingFile == [exists |-> FALSE]
FileOf(lines) == [exists |-> TRUE, lines |-> lines]

Ok(v) == [ok |-> TRUE, val |-> v]
Err(msg, detail) == [ok |-> FALSE, msg |-> msg, detail |-> detail]

\* Iterator<Result<T>>::collect::<Result<Vec<T>>>(): the Ok values in order, or
\* the first Err met.
RECURSIVE Collect(_, _)
Collect(results, acc) ==
    IF results = <<>> THEN Ok(acc)
    ELSE IF ~Head(results).ok THEN Head(results)
    ELSE Collect(Tail(results), Append(acc, Head(results).val))

CollectResults(results) == Collect(results, <<>>)

HotelOfLine(line) ==
    IF line.ok
    THEN Ok(<<line.val.id, line.val>>)
    ELSE Err("Encountered unparsable entity during parsing hotels data at line", line.raw)

\* A reader that drops the lines it cannot parse instead of failing.
RECURSIVE ParsedOnly(_)
ParsedOnly(results) ==
    IF results = <<>> THEN <<>>
    ELSE (IF Head(results).ok THEN <<Head(results).val>> ELSE <<>>)
         \o ParsedOnly(Tail(results))

hotels_reader_lenient(file) ==
    IF ~file.exists
    THEN Err("Path to the hotels data is invalid!", "")
    ELSE Ok(ParsedOnly([i \in 1..Len(file.lines) |-> HotelOfLine(file.lines[i])]))

hotels_reader(file) ==
    IF ~file.exists
    THEN Err("Path to the hotels data is invalid!", "")
    ELSE CollectResults([i \in 1..Len(file.lines) |-> HotelOfLine(file.lines[i])])

RoomOfLine(line) ==
    IF line.ok
    THEN Ok(<<RoomKey(line.val), line.val>>)
    ELSE Err("Encountered unparsable entity during parsing rooms data.", "")

\* A reader that takes a missing file for an empty one.
rooms_reader_default(file) ==
    IF ~file.exists
    THEN Ok(<<>>)
    ELSE CollectResults([i \in 1..Len(file.lines) |-> RoomOfLine(file.lines[i])])

rooms_reader(file) ==
    IF ~file.exists
    THEN Err("Path to the rooms data is invalid!", "")
    ELSE CollectResults([i \in 1..Len(file.lines) |-> RoomOfLine(file.lines[i])])

(***************************************************************************)
(* DataSource (data/mod.rs): a HashMap, here a function whose domain is    *)
(* the set of keys present.                                                *)
(***************************************************************************)
NewDataSource == <<>>

InsertIfAbsent(store, key, entry) ==
    [k \in DOMAIN store \cup {key} |->
        IF k \in DOMAIN store THEN store[k] ELSE entry]

Insert(store, key, entry) ==
    [k \in DOMAIN store \cup {key} |-> IF k = key THEN entry ELSE store[k]]

RECURSIVE Extend(_, _)
Extend(store, pairs) ==
    IF pairs = <<>> THEN store
    ELSE Extend(Insert(store, Head(pairs)[1], Head(pairs)[2]), Tail(pairs))

\* import_from, given read = reader(path):
\* [store |-> the items after the call, result |-> Ok(()) or the reader's error]
import_from(store, read) ==
    IF ~read.ok
    THEN [store |-> store, result |-> read]
    ELSE [store |-> Extend(store, read.val), result |-> Ok(<<>>)]

find(store, key) ==
    IF key \in DOMAIN store
    THEN [found |-> TRUE, val |-> store[key]]
    ELSE [found |-> FALSE]


(***************************************************************************)
(* The universe of reference data.  Codes are free text, so they may hold  *)
(* the hyphen generate_room_key joins them with.                           *)
(***************************************************************************)
HotelLines ==
    { GoodLine("h1", MkHotel("H", "Crowne Plaza", 4)),
      GoodLine("h2", MkHotel("H", "Crowne Plaza Berlin", 5)),
      GoodLine("h3", MkHotel("H-R", "Marriott", 5)),
      BadLine("x1"), BadLine("x2") }

RoomLines ==
    { GoodLine("r1", MkRoom("H", "R", "S", "Single")),
      GoodLine("r2", MkRoom("H", "R", "S", "Single Deluxe")),
      BadLine("y1") }

RunRoomLines ==
    RoomLines \cup { GoodLine("r3", MkRoom("H", "R-R", "S", "Twin")) }

SeqsUpTo(S, n) == UNION { [1..k -> S] : k \in 0..n }

FilesOver(lines) == {MissingFile} \cup { FileOf(s) : s \in SeqsUpTo(lines, MaxLines) }

HotelFiles == FilesOver(HotelLines)
RoomFiles == FilesOver(RoomLines)

HotelKeys == {"H", "H-R", "G"}
RoomKeys == {"H-R-S", "H-R-R-S", "G-R-S"}

(***************************************************************************)
(* SpecStore: a client that makes any sequence of import_from calls on a   *)
(* hotels store and a rooms store; find is the pure lookup defined above.  *)
(***************************************************************************)
NoCall == [op |-> "none"]
NoDate == [stage |-> "none"]

InitCommon ==
    /\ hotels = NewDataSource
    /\ rooms = NewDataSource
    /\ input = MissingFile
    /\ pos = 0
    /\ items = <<>>
    /\ result = [state |-> "running"]
    /\ calls = 0
    /\ imported_h = <<>>
    /\ imported_r = <<>>
    /\ imports_ok = <<>>
    /\ custom_date = NoDate
    /\ last = NoCall

InitStore ==
    /\ pc = "store"
    /\ overflow_checks = FALSE
    /\ output = MissingFile
    /\ InitCommon

\* hotels.import_from(path, &hotels_reader) on the file found at path
ImportHotels(file) ==
    LET read == hotels_reader(file)
        r == import_from(hotels, read) IN
    /\ hotels' = r.store
    /\ imported_h' = IF r.result.ok THEN imported_h \o read.val ELSE imported_h
    /\ imports_ok' = IF r.result.ok THEN Append(imports_ok, "hotels") ELSE imports_ok
    /\ last' = [op |-> "import_hotels", file |-> file, before |-> hotels,
                result |-> r.result]
    /\ calls' = calls + 1
    /\ UNCHANGED <<rooms, imported_r>>

\* rooms.import_from(path, &rooms_reader) on the file found at path
ImportRooms(file) ==
    LET read == rooms_reader(file)
        r == import_from(rooms, read) IN
    /\ rooms' = r.store
    /\ imported_r' = IF r.result.ok THEN imported_r \o read.val ELSE imported_r
    /\ imports_ok' = IF r.result.ok THEN Append(imports_ok, "rooms") ELSE imports_ok
    /\ last' = [op |-> "import_rooms", file |-> file, before |-> rooms,
                result |-> r.result]
    /\ calls' = calls + 1
    /\ UNCHANGED <<hotels, imported_h>>

StoreImportHotels ==
    /\ pc = "store"
    /\ calls < MaxImports
    /\ \E file \in HotelFiles : ImportHotels(file)
    /\ UNCHANGED <<pc, overflow_checks, custom_date, input, pos, items, output, result>>

StoreImportRooms ==
    /\ pc = "store"
    /\ calls < MaxImports
    /\ \E file \in RoomFiles : ImportRooms(file)
    /\ UNCHANGED <<pc, overflow_checks, custom_date, input, pos, items, output, result>>

NextStore ==
    \/ StoreImportHotels
    \/ StoreImportRooms

SpecStore == InitStore /\ [][NextStore]_vars

(***************************************************************************)
(* Values of the row integrator.                                           *)
(*   NaiveDate: [y, m, d].   f64: finite num/den, or inf, or NaN.          *)
(***************************************************************************)
MkDate(y, m, d) == [y |-> y, m |-> m, d |-> d]

IsLeapYear(y) == (y % 4 = 0 /\ y % 100 # 0) \/ y % 400 = 0

DaysInMonth(y, m) ==
    IF m = 2 THEN (IF IsLeapYear(y) THEN 29 ELSE 28)
    ELSE IF m \in {4, 6, 9, 11} THEN 30 ELSE 31

\* A day added with no roll-over at the end of the month.
AddOneDayNaive(date) == MkDate(date.y, date.m, date.d + 1)

\* date + Duration::days(1)
AddOneDay(date) ==
    IF date.d < DaysInMonth(date.y, date.m) THEN MkDate(date.y, date.m, date.d + 1)
    ELSE IF date.m < 12 THEN MkDate(date.y, date.m + 1, 1)
    ELSE MkDate(date.y + 1, 1, 1)

Finite(num, den) == [cls |-> "finite", num |-> num, den |-> den]
Infinite == [cls |-> "inf"]
NaN == [cls |-> "NaN"]

\* price / pax as Price, for a finite price >= 0 and a pax in 0..255
DivByPax(price, pax) ==
    IF pax = 0 THEN (IF price.num = 0 THEN NaN ELSE Infinite)
    ELSE Finite(price.num, price.den * pax)

\* item.adults + item.children on u8: the sum the build stores, and whether it
\* left the range (a panic where overflow checks are compiled in).
AddPeople(adults, children) ==
    [overflow |-> adults + children >= PeopleAmountMod,
     val |-> (adults + children) % PeopleAmountMod]

MkInput(hotel_code, room_code, checkin, adults, children, price) ==
    [city_code |-> "BER", hotel_code |-> hotel_code, room_type |-> "DBL",
     room_code |-> room_code, meal |-> "BB", checkin |-> checkin,
     adults |-> adults, children |-> children, price |-> Finite(price, 1),
     source |-> "S"]

OkItem(out) == [tag |-> "Ok", output |-> out]
ErrItem(msg, row) == [tag |-> "Err", msg |-> msg, row |-> row]
DeserializeErrItem == [tag |-> "Err", msg |-> "Input contains data that can't be deserialized!"]
Panic(msg) == [tag |-> "Panic", msg |-> msg]

RoomThenHotel == "room first"
HotelThenRoom == "hotel first"

\* The order in which next decides the two lookups.
LookupOrder == RoomThenHotel

\* The Output built from a row and the entries found for it (integrator.rs 61-82).
\* With the sum out of range: a panic under overflow checks, the wrapped sum otherwise.
Combine(item, room, hotel, checks) ==
    LET sum == AddPeople(item.adults, item.children)
        pax == sum.val IN
    IF sum.overflow /\ checks
    THEN Panic("attempt to add with overflow")
    ELSE OkItem(
        [room_type_meal |-> item.room_type \o " " \o item.meal,
         room_code |-> room.room_code,
         source |-> item.source,
         hotel_name |-> hotel.name,
         city_name |-> hotel.city,
         city_code |-> item.city_code,
         hotel_category |-> hotel.category,
         pax |-> pax,
         adults |-> item.adults,
         children |-> item.children,
         room_name |-> room.room_name,
         checkin |-> item.checkin,
         checkout |-> AddOneDay(item.checkin),
         price |-> DivByPax(item.price, pax)])

\* What DataIntegrator::next does with the record the csv iterator hands it:
\* the item it yields, or the panic it ends in.
Integrate(rms, hts, line, checks) ==
    IF ~line.ok THEN DeserializeErrItem
    ELSE
        LET item == line.val
            room_key == generate_room_key(item.hotel_code, item.room_code, item.source)
            room == find(rms, room_key)
            hotel == find(hts, item.hotel_code)
            no_room == ErrItem("Input links to a non existent room", item)
            no_hotel == ErrItem("Input links to a non existent hotel", item) IN
        IF LookupOrder = RoomThenHotel
        THEN IF ~room.found THEN no_room
             ELSE IF ~hotel.found THEN no_hotel
             ELSE Combine(item, room.val, hotel.val, checks)
        ELSE IF ~hotel.found THEN no_hotel
             ELSE IF ~room.found THEN no_room
             ELSE Combine(item, room.val, hotel.val, checks)

(***************************************************************************)
(* The universe of input rows: the references vary on one row shape, the   *)
(* head counts and the dates on rows whose references are H / R / S.       *)
(***************************************************************************)
BaseDate == MkDate(2019, 7, 30)

InputLines ==
    { GoodLine("i1", MkInput("H", "R", BaseDate, 2, 1, 90)),
      GoodLine("i2", MkInput("H-R", "R", BaseDate, 2, 1, 90)),
      GoodLine("i3", MkInput("G", "R", BaseDate, 2, 1, 90)),
      GoodLine("i4", MkInput("H", "R", BaseDate, 0, 0, 90)),
      GoodLine("i5", MkInput("H", "R", BaseDate, 200, 100, 90)),
      GoodLine("i6", MkInput("H", "R", BaseDate, 255, 1, 0)),
      GoodLine("i7", MkInput("H", "R", MkDate(2019, 12, 31), 1, 0, 90)),
      GoodLine("i8", MkInput("H", "R", MkDate(2020, 2, 28), 255, 0, 90)),
      BadLine("z1") }

InputFiles == {MissingFile} \cup { FileOf(s) : s \in SeqsUpTo(InputLines, MaxRows) }

HotelLine(raw) == CHOOSE l \in HotelLines : l.raw = raw
RoomLine(raw) == CHOOSE l \in RunRoomLines : l.raw = raw

\* The reference files a run may find at its two paths.
RunHotelFiles ==
    { MissingFile,
      FileOf(<<HotelLine("h1"), HotelLine("h3")>>),
      FileOf(<<HotelLine("h3")>>),
      FileOf(<<HotelLine("h1"), HotelLine("x1")>>) }

RunRoomFiles ==
    { MissingFile,
      FileOf(<<RoomLine("r1"), RoomLine("r3")>>),
      FileOf(<<RoomLine("r1"), RoomLine("r2")>>),
      FileOf(<<RoomLine("y1"), RoomLine("r1")>>) }

StaleOutput == FileOf(<<"stale">>)

(***************************************************************************)
(* run (lib.rs).                                                           *)
(***************************************************************************)
Returned(res) == [state |-> "returned", val |-> res]
Panicked(msg) == [state |-> "panicked", msg |-> msg]

Init ==
    /\ pc = "import_hotels"
    /\ overflow_checks \in BOOLEAN
    /\ output \in {MissingFile, StaleOutput}
    /\ InitCommon

\* The output writer made first, ahead of the imports: the file is created,
\* or truncated, as the hotels are imported.
RunImportHotelsCreating ==
    /\ pc = "import_hotels"
    /\ \E file \in RunHotelFiles : ImportHotels(file)
    /\ IF last'.result.ok
       THEN pc' = "import_rooms" /\ result' = result
       ELSE pc' = "returned" /\ result' = Returned(last'.result)
    /\ output' = FileOf(<<>>)
    /\ UNCHANGED <<overflow_checks, custom_date, input, pos, items>>

\* hotels.import_from(Path::new(&settings.hotels), &hotels_reader)?
RunImportHotels ==
    /\ pc = "import_hotels"
    /\ \E file \in RunHotelFiles : ImportHotels(file)
    /\ IF last'.result.ok
       THEN pc' = "import_rooms" /\ result' = result
       ELSE pc' = "returned" /\ result' = Returned(last'.result)
    /\ UNCHANGED <<overflow_checks, custom_date, input, pos, items, output>>

\* rooms.import_from(Path::new(&settings.rooms), &rooms_reader)?
RunImportRooms ==
    /\ pc = "import_rooms"
    /\ \E file \in RunRoomFiles : ImportRooms(file)
    /\ IF last'.result.ok
       THEN pc' = "open_input" /\ result' = result
       ELSE pc' = "returned" /\ result' = Returned(last'.result)
    /\ UNCHANGED <<overflow_checks, custom_date, input, pos, items, output>>

\* ReaderBuilder::new().delimiter('|').from_path(&settings.input).unwrap()
RunOpenInput ==
    /\ pc = "open_input"
    /\ \E file \in InputFiles :
        IF file.exists
        THEN input' = file /\ pc' = "create_output" /\ result' = result
        ELSE /\ input' = input
             /\ pc' = "panicked"
             /\ result' = Panicked("called Result::unwrap() on an Err value")
    /\ UNCHANGED <<overflow_checks, custom_date, hotels, rooms, pos, items, output, calls,
                   imported_h, imported_r, imports_ok, last>>

\* WriterBuilder::new().delimiter(';').from_path(Path::new(&settings.output))?
\* The file is created, or truncated, unless the path cannot be written.
RunCreateOutput ==
    /\ pc = "create_output"
    /\ \E writable \in BOOLEAN :
        IF writable
        THEN output' = FileOf(<<>>) /\ pc' = "loop" /\ result' = result
        ELSE /\ output' = output
             /\ pc' = "returned"
             /\ result' = Returned(Err("output file cannot be created", ""))
    /\ UNCHANGED <<overflow_checks, custom_date, hotels, rooms, input, pos, items, calls,
                   imported_h, imported_r, imports_ok, last>>

\* DataIntegrator::next when the input has a further record: the record is
\* consumed, and the item is yielded to a caller that goes on at `to`.
ConsumeRow(to) ==
    /\ pos < Len(input.lines)
    /\ LET it == Integrate(rooms, hotels, input.lines[pos + 1], overflow_checks) IN
        /\ pos' = pos + 1
        /\ IF it.tag = "Panic"
           THEN items' = items /\ pc' = "panicked" /\ result' = Panicked(it.msg)
           ELSE items' = Append(items, it) /\ pc' = to /\ result' = result
    /\ UNCHANGED <<overflow_checks, custom_date, input, output, calls, imported_h, imported_r,
                   imports_ok, last>>

\* A next that takes the room out of the store when it finds it.
RunNextTaking ==
    /\ pc = "loop"
    /\ ConsumeRow("item")
    /\ hotels' = hotels
    /\ rooms' = [k \in DOMAIN rooms \ {k2 \in DOMAIN rooms :
                     /\ input.lines[pos + 1].ok
                     /\ k2 = RoomKey(input.lines[pos + 1].val)} |-> rooms[k]]

\* for output_res in data_integrator: next yields Some(item)
RunNext ==
    /\ pc = "loop"
    /\ ConsumeRow("item")
    /\ UNCHANGED <<hotels, rooms>>

\* for output_res in data_integrator: next yields None, run returns Ok(())
RunEnd ==
    /\ pc = "loop"
    /\ pos = Len(input.lines)
    /\ pc' = "returned"
    /\ result' = Returned(Ok(<<>>))
    /\ UNCHANGED <<overflow_checks, custom_date, hotels, rooms, input, pos, items, output, calls,
                   imported_h, imported_r, imports_ok, last>>

\* the loop body on the item just yielded: let output = output_res?; then
\* output_writer.serialize(&output)
RunHandleItem ==
    /\ pc = "item"
    /\ LET it == items[Len(items)] IN
        IF it.tag = "Ok"
        THEN /\ output' = FileOf(Append(output.lines, it.output))
             /\ pc' = "loop"
             /\ result' = result
        ELSE /\ output' = output
             /\ pc' = "returned"
             /\ result' = Returned(it)
    /\ UNCHANGED <<overflow_checks, custom_date, hotels, rooms, input, pos, items, calls,
                   imported_h, imported_r, imports_ok, last>>

Next ==
    \/ RunImportHotels
    \/ RunImportRooms
    \/ RunOpenInput
    \/ RunCreateOutput
    \/ RunNext
    \/ RunEnd
    \/ RunHandleItem

Spec == Init /\ [][Next]_vars

(***************************************************************************)
(* SpecIter: a DataIntegrator over imported stores and an input file,      *)
(* driven by a caller that keeps asking for the next item whatever the     *)
(* last one was.                                                           *)
(***************************************************************************)
\* The stores a successful hotels import and a successful rooms import can build.
IterHotelStores ==
    { import_from(NewDataSource, hotels_reader(f)).store :
        f \in { g \in RunHotelFiles : hotels_reader(g).ok } }

IterRoomStores ==
    { import_from(NewDataSource, rooms_reader(f)).store :
        f \in { g \in RunRoomFiles : rooms_reader(g).ok } }

InitIter ==
    /\ pc = "iter"
    /\ overflow_checks \in BOOLEAN
    /\ output = MissingFile
    /\ hotels \in IterHotelStores
    /\ rooms \in IterRoomStores
    /\ input \in { f \in InputFiles : f.exists }
    /\ pos = 0
    /\ items = <<>>
    /\ result = [state |-> "running"]
    /\ calls = 0
    /\ imported_h = <<>>
    /\ imported_r = <<>>
    /\ imports_ok = <<>>
    /\ custom_date = NoDate
    /\ last = NoCall

IterNext ==
    /\ pc = "iter"
    /\ ConsumeRow("iter")
    /\ UNCHANGED <<hotels, rooms>>

\* next yields None
IterEnd ==
    /\ pc = "iter"
    /\ pos = Len(input.lines)
    /\ pc' = "iter_done"
    /\ UNCHANGED <<overflow_checks, custom_date, hotels, rooms, input, pos, items, output, result,
                   calls, imported_h, imported_r, imports_ok, last>>

NextIter ==
    \/ IterNext
    \/ IterEnd

SpecIter == InitIter /\ [][NextIter]_vars

(***************************************************************************)
(* custom_date (data/mod.rs): dates are read in one format and written in  *)
(* another.  A text is a sequence of characters.  A format is a sequence   *)
(* of items: "%Y", "%m", "%d" or a literal character.                      *)
(***************************************************************************)
INPUT_FORMAT == <<"%Y", "%m", "%d">>
OUTPUT_FORMAT == <<"%Y", "-", "%m", "-", "%d">>

DigitChars == <<"0", "1", "2", "3", "4", "5", "6", "7", "8", "9">>
IsDigit(c) == \E n \in 1..10 : DigitChars[n] = c
DigitValue(c) == (CHOOSE n \in 1..10 : DigitChars[n] = c) - 1

\* the decimal digits of n >= 0, without padding
RECURSIVE Decimal(_)
Decimal(n) ==
    IF n < 10 THEN <<DigitChars[n + 1]>>
    ELSE Decimal(n \div 10) \o <<DigitChars[(n % 10) + 1]>>

RECURSIVE ZeroPad(_, _)
ZeroPad(text, width) ==
    IF Len(text) >= width THEN text ELSE ZeroPad(<<"0">> \o text, width)

\* the width every numeric item is padded to when written, and the most
\* digits it takes when read
ItemWidth(item) == IF item = "%Y" THEN 4 ELSE 2

ItemValue(d, item) ==
    IF item = "%Y" THEN d.y ELSE IF item = "%m" THEN d.m ELSE d.d

IsNumericItem(item) == item \in {"%Y", "%m", "%d"}

\* date.format(fmt): a year outside 0..9999 is written with its sign
FormatItem(d, item) ==
    IF ~IsNumericItem(item) THEN <<item>>
    ELSE IF item = "%Y" /\ d.y > 9999
    THEN <<"+">> \o ZeroPad(Decimal(d.y), ItemWidth(item) + 1)
    ELSE ZeroPad(Decimal(ItemValue(d, item)), ItemWidth(item))

RECURSIVE FormatDate(_, _)
FormatDate(d, fmt) ==
    IF fmt = <<>> THEN <<>>
    ELSE FormatItem(d, Head(fmt)) \o FormatDate(d, Tail(fmt))

\* the number of leading digits of text, at most max
RECURSIVE LeadingDigits(_, _)
LeadingDigits(text, max) ==
    IF max = 0 \/ text = <<>> \/ ~IsDigit(Head(text)) THEN 0
    ELSE 1 + LeadingDigits(Tail(text), max - 1)

RECURSIVE NumberOf(_, _)
NumberOf(digits, acc) ==
    IF digits = <<>> THEN acc
    ELSE NumberOf(Tail(digits), 10 * acc + DigitValue(Head(digits)))

Unset == -1

SetField(fields, item, v) ==
    IF item = "%Y" THEN [fields EXCEPT !.y = v]
    ELSE IF item = "%m" THEN [fields EXCEPT !.m = v]
    ELSE [fields EXCEPT !.d = v]

ParseError == Err("input is not a date in the expected format", "")

\* NaiveDate::from_ymd_opt on the fields read
DateOfFields(fields) ==
    IF /\ fields.y # Unset
       /\ fields.m \in 1..12
       /\ fields.d \in 1..DaysInMonth(fields.y, fields.m)
    THEN Ok(MkDate(fields.y, fields.m, fields.d))
    ELSE ParseError

\* NaiveDate::parse_from_str(text, fmt) for unsigned text: a numeric item takes
\* the digits in front, one at least and no more than its width; a literal
\* must be there; nothing may be left over; the fields must make a date.
RECURSIVE ParseItems(_, _, _)
ParseItems(text, fmt, fields) ==
    IF fmt = <<>>
    THEN (IF text = <<>> THEN DateOfFields(fields) ELSE ParseError)
    ELSE IF IsNumericItem(Head(fmt))
    THEN LET n == LeadingDigits(text, ItemWidth(Head(fmt))) IN
         IF n = 0 THEN ParseError
         ELSE ParseItems(SubSeq(text, n + 1, Len(text)), Tail(fmt),
                         SetField(fields, Head(fmt), NumberOf(SubSeq(text, 1, n), 0)))
    ELSE IF text # <<>> /\ Head(text) = Head(fmt)
    THEN ParseItems(Tail(text), Tail(fmt), fields)
    ELSE ParseError

\* The format of the input used for the output as well.
OutputAsInput == INPUT_FORMAT

\* the format custom_date::serialize writes with
SerializeFormat == OUTPUT_FORMAT

custom_date_serialize(d) == FormatDate(d, SerializeFormat)

custom_date_deserialize(text) ==
    ParseItems(text, INPUT_FORMAT, [y |-> Unset, m |-> Unset, d |-> Unset])

(***************************************************************************)
(* SpecDate: an eight-digit text YYYYMMDD is read as Input.checkin, copied *)
(* to Output.checkin and written.                                          *)
(***************************************************************************)
SampleYears == {1, 9, 10, 99, 100, 999, 1000, 2019, 2020, 9999}

\* the digit of n at the place of the given power of ten
DigitAt(n, place) == DigitChars[((n \div place) % 10) + 1]

\* YYYYMMDD, digit by digit
CompactText(d) ==
    <<DigitAt(d.y, 1000), DigitAt(d.y, 100), DigitAt(d.y, 10), DigitAt(d.y, 1),
      DigitAt(d.m, 10), DigitAt(d.m, 1), DigitAt(d.d, 10), DigitAt(d.d, 1)>>

InitDate ==
    /\ pc = "date"
    /\ overflow_checks = FALSE
    /\ output = MissingFile
    /\ hotels = NewDataSource
    /\ rooms = NewDataSource
    /\ input = MissingFile
    /\ pos = 0
    /\ items = <<>>
    /\ result = [state |-> "running"]
    /\ calls = 0
    /\ imported_h = <<>>
    /\ imported_r = <<>>
    /\ imports_ok = <<>>
    /\ last = NoCall
    /\ \E y \in SampleYears, m \in 1..12, d \in 1..31 :
        custom_date = [stage |-> "text", of |-> MkDate(y, m, d),
                text |-> CompactText(MkDate(y, m, d))]

\* #[serde(with = "custom_date")] on Input.checkin
DateDeserialize ==
    /\ pc = "date"
    /\ custom_date.stage = "text"
    /\ LET read == custom_date_deserialize(custom_date.text) IN
        custom_date' = IF read.ok
                THEN [stage |-> "parsed", of |-> custom_date.of, text |-> custom_date.text,
                      parsed |-> read.val]
                ELSE [stage |-> "rejected", of |-> custom_date.of, text |-> custom_date.text]
    /\ UNCHANGED <<pc, overflow_checks, hotels, rooms, input, pos, items, output,
                   result, calls, imported_h, imported_r, imports_ok, last>>

\* checkin: item.checkin, then #[serde(with = "custom_date")] on Output.checkin
DateSerialize ==
    /\ pc = "date"
    /\ custom_date.stage = "parsed"
    /\ custom_date' = [stage |-> "written", of |-> custom_date.of, text |-> custom_date.text,
                parsed |-> custom_date.parsed,
                written |-> custom_date_serialize(custom_date.parsed)]
    /\ UNCHANGED <<pc, overflow_checks, hotels, rooms, input, pos, items, output,
                   result, calls, imported_h, imported_r, imports_ok, last>>

NextDate ==
    \/ DateDeserialize
    \/ DateSerialize

SpecDate == InitDate /\ [][NextDate]_vars

(***************************************************************************)
(* Claims about the stores, checked under SpecStore.                       *)
(***************************************************************************)
IsImport == last.op \in {"import_hotels", "import_rooms"}

HasBadLine(file) == file.exists /\ \E i \in 1..Len(file.lines) : ~file.lines[i].ok

FirstBadLine(file) ==
    file.lines[CHOOSE i \in 1..Len(file.lines) :
                  /\ ~file.lines[i].ok
                  /\ \A j \in 1..(i - 1) : file.lines[j].ok]

StoreOf(op) == IF op = "import_hotels" THEN hotels ELSE rooms

\* C8: an import of a reference file holding a malformed line fails as a whole:
\* import_from returns the reader's error (hotels: the raw text of the first
\* malformed line; rooms: the generic unparsable-entity error) and the store
\* holds exactly the entries it held before the call.
C8_MalformedImportIsAtomic ==
    (IsImport /\ HasBadLine(last.file)) =>
        /\ ~last.result.ok
        /\ StoreOf(last.op) = last.before
        /\ last.op = "import_hotels" =>
              last.result =
                Err("Encountered unparsable entity during parsing hotels data at line",
                    FirstBadLine(last.file).raw)
        /\ last.op = "import_rooms" =>
              last.result =
                Err("Encountered unparsable entity during parsing rooms data.", "")

\* A file with a well-formed line beside the malformed one has been imported
\* into a store that already held entries.
C8_Witness ==
    /\ IsImport
    /\ HasBadLine(last.file)
    /\ \E i \in 1..Len(last.file.lines) : last.file.lines[i].ok
    /\ last.before # NewDataSource
    /\ ~last.result.ok

HasKey(history, key) == \E i \in 1..Len(history) : history[i][1] = key

LastWithKey(history, key) ==
    history[CHOOSE i \in 1..Len(history) :
               /\ history[i][1] = key
               /\ \A j \in (i + 1)..Len(history) : history[j][1] # key][2]

FindAgrees(store, history, key) ==
    IF HasKey(history, key)
    THEN find(store, key) = [found |-> TRUE, val |-> LastWithKey(history, key)]
    ELSE find(store, key) = [found |-> FALSE]

AllLinesGood(file) == file.exists /\ \A i \in 1..Len(file.lines) : file.lines[i].ok

\* C9: after any sequence of import_from calls, find(k) is the entry of the last
\* imported pair with key k (import order, duplicates inside a batch included),
\* not-found exactly when no imported pair has key k; an import of a readable,
\* well-formed file succeeds whatever keys collide.
C9_LastWriteWins ==
    /\ \A key \in HotelKeys : FindAgrees(hotels, imported_h, key)
    /\ \A key \in RoomKeys : FindAgrees(rooms, imported_r, key)
    /\ (IsImport /\ AllLinesGood(last.file)) => last.result.ok

\* A successful import whose batch holds the same key twice with different
\* entries, into a store that already held that key.
C9_Witness ==
    /\ IsImport
    /\ last.result.ok
    /\ Len(last.file.lines) = 2
    /\ last.file.lines[1].val # last.file.lines[2].val
    /\ \/ /\ last.op = "import_hotels"
          /\ last.file.lines[1].val.id = last.file.lines[2].val.id
          /\ last.file.lines[1].val.id \in DOMAIN last.before
       \/ /\ last.op = "import_rooms"
          /\ RoomKey(last.file.lines[1].val) = RoomKey(last.file.lines[2].val)
          /\ RoomKey(last.file.lines[1].val) \in DOMAIN last.before

(***************************************************************************)
(* Claims about the integrator and run.                                    *)
(***************************************************************************)
RowKey(row) == generate_room_key(row.hotel_code, row.room_code, row.source)
RoomFound(row) == find(rooms, RowKey(row)).found
HotelFound(row) == find(hotels, row.hotel_code).found
People(row) == row.adults + row.children

\* The row the i-th yielded item was produced for.
RowOf(i) == input.lines[i]

Joined(i) == RowOf(i).ok /\ RoomFound(RowOf(i).val) /\ HotelFound(RowOf(i).val)

\* A row run stops at: it does not parse, or one of its lookups misses.
Fails(line) == ~line.ok \/ ~RoomFound(line.val) \/ ~HotelFound(line.val)

FirstFailing ==
    IF \E i \in 1..Len(input.lines) : Fails(input.lines[i])
    THEN CHOOSE i \in 1..Len(input.lines) :
            Fails(input.lines[i]) /\ \A j \in 1..(i - 1) : ~Fails(input.lines[j])
    ELSE Len(input.lines) + 1

OutputCreateFailed == result = Returned(Err("output file cannot be created", ""))

\* run has left its loop, by a return or by a panic
LoopLeft == input.exists /\ pc \in {"returned", "panicked"} /\ ~OutputCreateFailed

\* C1: when run ends, the rows in the output file are exactly the Outputs of the
\* input rows before the first failing row (lookup miss or malformed row), in
\* input order, and run has returned that row's error if there is one, Ok if not.
C1_OutputIsPrefixBeforeFirstFailure ==
    LoopLeft =>
        /\ Len(output.lines) = FirstFailing - 1
        /\ \A i \in 1..Len(output.lines) : OkItem(output.lines[i]) = items[i]
        /\ IF FirstFailing <= Len(input.lines)
           THEN items[FirstFailing].tag = "Err" /\ result = Returned(items[FirstFailing])
           ELSE result = Returned(Ok(<<>>))

\* C2: next yields one item, Ok or Err, for every input row it has consumed, the
\* i-th item for the i-th row, and None exactly when the input is exhausted.
C2_OneItemPerRow ==
    /\ Len(items) = pos
    /\ \A i \in 1..Len(items) : items[i].tag \in {"Ok", "Err"}
    /\ pc = "iter_done" => pos = Len(input.lines)

\* C3: a well-formed row with no room for its key yields the missing-room error
\* carrying the row, whether or not its hotel exists; with a room but no hotel
\* it yields the missing-hotel error carrying the row; Ok only with both.
C3_RoomLookupDecidedFirst ==
    \A i \in 1..Len(items) :
        RowOf(i).ok =>
            LET row == RowOf(i).val IN
            /\ ~RoomFound(row) =>
                  items[i] = ErrItem("Input links to a non existent room", row)
            /\ (RoomFound(row) /\ ~HotelFound(row)) =>
                  items[i] = ErrItem("Input links to a non existent hotel", row)
            /\ items[i].tag = "Ok" => (RoomFound(row) /\ HotelFound(row))

\* A row with neither room nor hotel got the missing-room error, and a row
\* with a room but no hotel the missing-hotel error.
C3_Witness ==
    /\ Len(items) = 2
    /\ \E i \in 1..2 :
        /\ RowOf(i).ok /\ ~RoomFound(RowOf(i).val) /\ ~HotelFound(RowOf(i).val)
        /\ items[i].tag = "Err"
    /\ \E i \in 1..2 :
        /\ RowOf(i).ok /\ RoomFound(RowOf(i).val) /\ ~HotelFound(RowOf(i).val)
        /\ items[i].tag = "Err"

\* C4: a row is joined only to the room whose (hotel_code, room_code, source)
\* equals the row's, component by component, so the Output's room_code is the
\* row's room_code.
C4_ExactCompositeMatch ==
    \A i \in 1..Len(items) :
        items[i].tag = "Ok" =>
            LET row == RowOf(i).val
                room == find(rooms, RowKey(row)).val IN
            /\ room.hotel_code = row.hotel_code
            /\ room.room_code = row.room_code
            /\ room.source = row.source
            /\ items[i].output.room_code = row.room_code

ValidDate(date) ==
    /\ date.m \in 1..12
    /\ date.d \in 1..DaysInMonth(date.y, date.m)

DateBefore(a, b) ==
    \/ a.y < b.y
    \/ a.y = b.y /\ a.m < b.m
    \/ a.y = b.y /\ a.m = b.m /\ a.d < b.d

\* b is the calendar day after a: the earliest valid date later than a
DayAfter(a, b) ==
    /\ ValidDate(b)
    /\ DateBefore(a, b)
    /\ \A y \in {a.y, a.y + 1}, m \in 1..12, d \in 1..31 :
          ~(/\ ValidDate(MkDate(y, m, d))
            /\ DateBefore(a, MkDate(y, m, d))
            /\ DateBefore(MkDate(y, m, d), b))

\* C5: a row whose lookups both succeed and whose adults + children is in 1..255
\* yields Ok(Output) with pax the sum, checkout the calendar day after checkin,
\* room_type_meal "room_type meal", the row's checkin, adults, children,
\* city_code and source, the name, city and category of the hotel whose id is
\* the row's hotel_code, and the room_name of the matched room.
C5_OutputFields ==
    \A i \in 1..Len(items) :
        (Joined(i) /\ People(RowOf(i).val) \in 1..255) =>
            LET row == RowOf(i).val
                room == find(rooms, RowKey(row)).val
                hotel == find(hotels, row.hotel_code).val IN
            /\ items[i].tag = "Ok"
            /\ LET out == items[i].output IN
                /\ out.pax = row.adults + row.children
                /\ DayAfter(row.checkin, out.checkout)
                /\ out.room_type_meal = row.room_type \o " " \o row.meal
                /\ out.checkin = row.checkin
                /\ out.adults = row.adults
                /\ out.children = row.children
                /\ out.city_code = row.city_code
                /\ out.source = row.source
                /\ hotel.id = row.hotel_code
                /\ out.hotel_name = hotel.name
                /\ out.city_name = hotel.city
                /\ out.hotel_category = hotel.category
                /\ out.room_name = room.room_name

\* Two joined rows, one checking in on the last day of a year and one on
\* 28 February of a leap year with 255 people.
C5_Witness ==
    /\ Len(items) = 2
    /\ \E i \in 1..2 :
        /\ Joined(i) /\ items[i].tag = "Ok"
        /\ items[i].output.checkin = MkDate(2019, 12, 31)
        /\ items[i].output.checkout = MkDate(2020, 1, 1)
    /\ \E i \in 1..2 :
        /\ Joined(i) /\ items[i].tag = "Ok"
        /\ items[i].output.pax = 255
        /\ items[i].output.checkout = MkDate(2020, 2, 29)

\* C6: a joined row with adults + children = 0 yields an error, and no Output
\* with an infinite or NaN price is yielded or written.
C6_ZeroPaxIsAnError ==
    /\ \A i \in 1..Len(items) :
        /\ (Joined(i) /\ People(RowOf(i).val) = 0) => items[i].tag = "Err"
        /\ items[i].tag = "Ok" => items[i].output.price.cls = "finite"
    /\ (output.exists /\ output # StaleOutput) =>
          \A i \in 1..Len(output.lines) : output.lines[i].price.cls = "finite"

\* C7: a joined row with adults + children > 255 yields an error; no Output has
\* a pax other than adults + children, and the addition never panics.
C7_PaxNeverOverflows ==
    /\ result # Panicked("attempt to add with overflow")
    /\ \A i \in 1..Len(items) :
        /\ (Joined(i) /\ People(RowOf(i).val) > 255) => items[i].tag = "Err"
        /\ items[i].tag = "Ok" => items[i].output.pax = People(RowOf(i).val)

\* C10, the state part: a row has been pulled, or run is in its loop, only
\* with the hotels import and then the rooms import returned Ok.
C10_ImportsBeforeRows ==
    (pos > 0 \/ items # <<>> \/ pc \in {"loop", "item"}) =>
        imports_ok = <<"hotels", "rooms">>

\* C10: no row is pulled or looked up before both imports have succeeded, and
\* no step from the first pull on changes either store.
C10_StoresReadOnlyAfterImport ==
    /\ []C10_ImportsBeforeRows
    /\ [][(pos > 0 \/ pos' > 0) => (hotels' = hotels /\ rooms' = rooms)]_vars

\* The second row of a run has been integrated against non-empty stores.
C10_Witness ==
    /\ pos = 2
    /\ Len(items) = 2
    /\ hotels # NewDataSource
    /\ rooms # NewDataSource

(***************************************************************************)
(* SpecImports: the import_from calls of run together with those of a      *)
(* client of the stores.                                                   *)
(***************************************************************************)
InitImports == Init \/ InitStore

NextImports == Next \/ NextStore

SpecImports == InitImports /\ [][NextImports]_vars

MalformedMessages ==
    { "Encountered unparsable entity during parsing hotels data at line",
      "Encountered unparsable entity during parsing rooms data." }

InvalidPathOf(op) ==
    IF op = "import_hotels"
    THEN Err("Path to the hotels data is invalid!", "")
    ELSE Err("Path to the rooms data is invalid!", "")

\* C11: an import of a reference file that does not exist returns the
\* invalid-path error, which is not the malformed-entry error, from the reader
\* and from import_from, leaves the store as it was, and inside run makes run
\* return that error (no panic).
C11_MissingFileIsInvalidPath ==
    (IsImport /\ ~last.file.exists) =>
        /\ last.result = InvalidPathOf(last.op)
        /\ last.result.msg \notin MalformedMessages
        /\ StoreOf(last.op) = last.before
        /\ pc # "store" => (pc = "returned" /\ result = Returned(last.result))

\* run has imported the hotels and then found no rooms file.
C11_Witness ==
    /\ pc = "returned"
    /\ last.op = "import_rooms"
    /\ ~last.file.exists
    /\ hotels # NewDataSource
    /\ rooms = NewDataSource

\* run is past the opening of the input file and had found none to open
InputWasMissing ==
    /\ imports_ok = <<"hotels", "rooms">>
    /\ pc \notin {"open_input"}
    /\ ~input.exists

\* C12: with both imports done and the input file missing or unreadable, run
\* returns an error value to its caller; it does not panic.
C12_MissingInputIsReturned ==
    InputWasMissing =>
        /\ pc = "returned"
        /\ result.state = "returned"
        /\ ~result.val.ok

\* YYYY-MM-DD, digit by digit
HyphenText(d) ==
    <<DigitAt(d.y, 1000), DigitAt(d.y, 100), DigitAt(d.y, 10), DigitAt(d.y, 1), "-",
      DigitAt(d.m, 10), DigitAt(d.m, 1), "-", DigitAt(d.d, 10), DigitAt(d.d, 1)>>

\* C13: for a calendar date d of a year in 1..9999, reading its text YYYYMMDD
\* gives d, and writing it gives YYYY-MM-DD with the same zero-padded year,
\* month and day, so the checkin written is the date that was read.
C13_DateRoundTrip ==
    (custom_date.stage # "none" /\ ValidDate(custom_date.of)) =>
        /\ custom_date.stage # "rejected"
        /\ custom_date.stage \in {"parsed", "written"} => custom_date.parsed = custom_date.of
        /\ custom_date.stage = "written" =>
              /\ custom_date.written = HyphenText(custom_date.of)
              /\ Len(custom_date.written) = 10

\* 31 December of the year 10 has been read and written with its padded year.
C13_Witness ==
    /\ custom_date.stage = "written"
    /\ custom_date.of = MkDate(10, 12, 31)
    /\ custom_date.written = <<"0", "0", "1", "0", "-", "1", "2", "-", "3", "1">>

BothImported == imports_ok = <<"hotels", "rooms">>
OutputUntouched == output \in {MissingFile, StaleOutput}
InputUnopened == input = MissingFile /\ pos = 0

\* what holds at every point of run
OutputAfterOpening ==
    /\ pc \in {"import_hotels", "import_rooms", "open_input", "create_output"} =>
          OutputUntouched
    /\ pc = "import_rooms" => imports_ok = <<"hotels">>
    /\ pc \in {"open_input", "create_output"} => BothImported
    /\ pc = "open_input" => InputUnopened
    /\ pc = "create_output" => input.exists
    /\ (pc = "returned" /\ ~BothImported) =>
          /\ result = Returned(last.result)
          /\ ~last.result.ok
          /\ OutputUntouched
          /\ InputUnopened
    /\ (pc = "returned" /\ imports_ok = <<>>) =>
          /\ calls = 1
          /\ last.op = "import_hotels"
          /\ rooms = NewDataSource
          /\ imported_r = <<>>

\* what every step of run keeps to
OutputStep ==
    /\ output' # output => (BothImported /\ input.exists /\ UNCHANGED <<imports_ok, input>>)
    /\ input' # input => (BothImported /\ output' = output)
    /\ rooms' # rooms => (imports_ok = <<"hotels">> /\ output' = output /\ input' = input)

\* C14: run creates or truncates the output file only after the hotels import,
\* the rooms import and the opening of the input file have succeeded, in that
\* order; when an import fails run returns its error with the output file
\* neither created nor changed and the input file never opened, and when the
\* hotels import fails the rooms file is never read.
C14_OutputCreatedLast == [] OutputAfterOpening /\ [][OutputStep]_vars

\* run has returned the error of a failed rooms import, after a hotels import
\* that filled the store, and the file at the output path is the one that was
\* there before.
C14_Witness ==
    /\ pc = "returned"
    /\ imports_ok = <<"hotels">>
    /\ last.op = "import_rooms"
    /\ ~last.result.ok
    /\ hotels # NewDataSource
    /\ output = StaleOutput

====
